---- MODULE Spec2Model ----
(***************************************************************************)
(* forc-crypto: command dispatch (run) and the secure output presenter     *)
(* (display_output, has_sensible_info, wait_for_keypress) of               *)
(* forc-plugins/forc-crypto/src/main.rs.                                   *)
(*                                                                         *)
(* One behaviour is one process run.  The program steps are cut at the     *)
(* statements of main.rs that perform I/O, because each of them can fail   *)
(* and because the keypress read blocks on the user.  I/O outcomes are     *)
(* chosen by the environment.  A panic (unwrap/expect/println!) prints the *)
(* panic hook's message, unwinds (so live destructors run) and ends the    *)
(* process with code 101: the default panic strategy of a Rust build.      *)
(***************************************************************************)
EXTENDS Integers, Sequences, FiniteSets, TLC

VARIABLES
    cmd,          \* the parsed Command variant (line 58)
    arg,          \* the command's argument, abstracted: 0 = rejected by the handler
    isTty,        \* atty::is(Stream::Stdout) (line 90)
    pc,           \* position of the process in main/run/display_output
    content,      \* the message handed to display_output (line 59 / 86)
    text,         \* serde_yaml / serde_json rendering of the message (91, 102)
    err,          \* the anyhow error travelling to main, "none" if there is none
    screen,       \* the terminal buffer that is active: "main" or "alt"
    guard,        \* TRUE while the AlternateScreen value `screen` (line 93) is alive
    log,          \* everything the process did that can be observed, in order
    stdinBuf,     \* bytes typed and not yet read
    stdinEof,     \* standard input is closed
    bytesRead,    \* bytes display_output has taken from standard input
    handlerCalls, \* operation handlers invoked by run, in order
    displayCalls, \* number of calls of display_output
    exitCode,     \* -1 while running, then the process exit code
    branch        \* branch of display_output taken: none / shielded / plain / json

vars == <<cmd, arg, isTty, pc, content, text, err, screen, guard, log, stdinBuf,
          stdinEof, bytesRead, handlerCalls, displayCalls, exitCode, branch>>

-----------------------------------------------------------------------------
(* Bounds *)

\* arguments 1..MaxArg are accepted by the handlers, 0 is rejected
MaxArg == 2
\* at most this many bytes are typed ahead on standard input
MaxKeys == 2
\* byte values 0..MaxByte stand for the keys that can be pressed
MaxByte == 1

-----------------------------------------------------------------------------
(* Values: what serde sees of a message *)

FieldNames == {"secret", "public", "address"}

\* the value of an object member: a string, null, or a nested object that
\* itself has a member named secret
Leaves == {"str", "null", "nested_secret"}

ObjectMaps == UNION {[S -> Leaves] : S \in SUBSET FieldNames}

Values ==
    {[type |-> "String", s |-> d] : d \in 1..(2 * MaxArg)}
    \cup {[type |-> "Null"]}
    \cup {[type |-> "Object", map |-> f] : f \in ObjectMaps}

\* a message of display_output<T: Serialize>: its shape and whether each
\* serializer accepts it
Messages == [value : Values, jsonOk : BOOLEAN, yamlOk : BOOLEAN]

NoMessage == [value |-> [type |-> "None"], jsonOk |-> FALSE, yamlOk |-> FALSE]
NoText == [format |-> "none"]

Obj(f) == [type |-> "Object", map |-> f]
Serializable(v) == [value |-> v, jsonOk |-> TRUE, yamlOk |-> TRUE]

\* the names of the top-level members of a value
TopKeys(v) == IF v.type = "Object" THEN DOMAIN v.map ELSE {}

\* serde_json::to_value(message)
to_value(m) == IF m.jsonOk THEN [tag |-> "Ok", value |-> m.value] ELSE [tag |-> "Err"]

\* serde_yaml::to_string: block style, one line per scalar, a nested mapping
\* takes its header line and one line per member
YamlLines(v) ==
    IF v.type # "Object" \/ DOMAIN v.map = {} THEN 1
    ELSE Cardinality(DOMAIN v.map)
         + Cardinality({k \in DOMAIN v.map : v.map[k] = "nested_secret"})

serde_yaml_to_string(m) ==
    IF m.yamlOk
    THEN [tag |-> "Ok",
          text |-> [format |-> "yaml", lines |-> YamlLines(m.value),
                    fields |-> TopKeys(m.value), of |-> m.value]]
    ELSE [tag |-> "Err"]

\* serde_json::to_string: compact, always a single line
serde_json_to_string(m) ==
    IF m.jsonOk
    THEN [tag |-> "Ok",
          text |-> [format |-> "json", lines |-> 1,
                    fields |-> TopKeys(m.value), of |-> m.value]]
    ELSE [tag |-> "Err"]

-----------------------------------------------------------------------------
(* has_sensible_info, lines 76-84 *)

\* a mutation: the key is searched at any depth, not only at the top level
has_sensible_info_deep(message) ==
    LET v == to_value(message)
    IN  /\ v.tag = "Ok"
        /\ v.value.type = "Object"
        /\ \/ "secret" \in DOMAIN v.value.map
           \/ \E k \in DOMAIN v.value.map : v.value.map[k] = "nested_secret"

\* a mutation: the producing command decides, not the shape of the value
has_sensible_info_by_command(message) == cmd = "NewKey"

\* a mutation: the key is looked up under another name
has_sensible_info_other_key(message) ==
    LET v == to_value(message)
    IN  /\ v.tag = "Ok"
        /\ v.value.type = "Object"
        /\ "private" \in DOMAIN v.value.map

has_sensible_info(message) ==
    LET v == to_value(message)
    IN  IF v.tag = "Ok" /\ v.value.type = "Object"
        THEN "secret" \in DOMAIN v.value.map      \* map.get("secret").is_some()
        ELSE FALSE                                 \* _ => false

-----------------------------------------------------------------------------
(* Command and run's match, lines 40-47 and 59-66 *)

Command == {"Keccak256", "Sha256", "Address", "GetPublicKey", "NewKey", "ParseSecret"}

Handlers == {"keccak256::hash", "sha256::hash", "address::dump_address",
             "keys::get_public_key::handler", "keys::new_key::handler",
             "keys::parse_secret::handler"}

\* a mutation: the Sha256 arm calls the keccak handler
HandlerOfSwapped(c) ==
    CASE c = "Keccak256"    -> "keccak256::hash"
      [] c = "GetPublicKey" -> "keys::get_public_key::handler"
      [] c = "Sha256"       -> "keccak256::hash"
      [] c = "Address"      -> "address::dump_address"
      [] c = "NewKey"       -> "keys::new_key::handler"
      [] c = "ParseSecret"  -> "keys::parse_secret::handler"

HandlerOf(c) ==
    CASE c = "Keccak256"    -> "keccak256::hash"
      [] c = "GetPublicKey" -> "keys::get_public_key::handler"
      [] c = "Sha256"       -> "sha256::hash"
      [] c = "Address"      -> "address::dump_address"
      [] c = "NewKey"       -> "keys::new_key::handler"
      [] c = "ParseSecret"  -> "keys::parse_secret::handler"

\* The handlers live in modules address, args, keccak256, keys, sha256 (lines
\* 13-17).  What each returns: a digest string, or a record of strings.
HandlerValue(h, a) ==
    CASE h = "keccak256::hash" -> [type |-> "String", s |-> a]
      [] h = "sha256::hash" -> [type |-> "String", s |-> MaxArg + a]
      [] h = "address::dump_address" -> Obj([k \in {"address"} |-> "str"])
      [] h = "keys::get_public_key::handler" -> Obj([k \in {"public", "address"} |-> "str"])
      [] h \in {"keys::new_key::handler", "keys::parse_secret::handler"} ->
             Obj([k \in {"secret", "public", "address"} |-> "str"])

HandlerResult(h, a) ==
    IF a = 0 THEN [tag |-> "Err"]
    ELSE [tag |-> "Ok", value |-> Serializable(HandlerValue(h, a))]

-----------------------------------------------------------------------------
(* The observable events *)

Event(e) == [ev |-> e, screen |-> screen, text |-> NoText]
Written(t) == [ev |-> "Text", screen |-> screen, text |-> t]

\* Drop for AlternateScreen: writes ToMainScreen when the value `screen` of
\* line 93 goes out of scope, on return, on `?` and on unwinding.  The write
\* goes through stdout's buffer, which the runtime flushes when the process
\* ends at the latest; the terminal effect is recorded where it is issued.
DropEvents(g) == IF g THEN <<Event("Restore")>> ELSE <<>>

\* a mutation: the guard is leaked, its destructor never runs
ScreenAfterDropLeaked(g, s) == s

ScreenAfterDrop(g, s) == IF g THEN "main" ELSE s

\* a panic on the main thread: the hook prints its message, the stack
\* unwinds, the runtime ends the process with code 101
Panic ==
    /\ log' = log \o <<Event("Panic")>> \o DropEvents(guard)
               \o <<[ev |-> "Exit", screen |-> ScreenAfterDrop(guard, screen), text |-> NoText]>>
    /\ screen' = ScreenAfterDrop(guard, screen)
    /\ guard' = FALSE
    /\ exitCode' = 101
    /\ pc' = "exited"

\* `?` inside display_output: the error leaves run, locals are dropped
ReturnErr(e) ==
    /\ log' = log \o DropEvents(guard)
    /\ screen' = ScreenAfterDrop(guard, screen)
    /\ guard' = FALSE
    /\ err' = e
    /\ pc' = "main_err"
    /\ UNCHANGED exitCode

-----------------------------------------------------------------------------
(* The points of display_output that mutations move *)

\* lines 90-103: which branch a message takes
BranchOfIgnoringTty(tty, sensible) == IF sensible THEN "shielded" ELSE "plain"

BranchOf(tty, sensible) ==
    IF tty THEN (IF sensible THEN "shielded" ELSE "plain") ELSE "json"

\* line 93: `stdout().into_alternate_screen()?` failed
EnterFailureFallsBack == "print_plain"

EnterFailure == "main_err"

\* line 97: what follows the warning line
AfterWarningNoWait == "return"

AfterWarning == "wait_key"

\* line 72: `let mut single_key = [0u8];`, the size of the buffer read_exact fills
SingleKeyLen == 1

\* a mutation: the read drains everything typed so far
KeypressTakeAll(buf) == Len(buf)

KeypressTake(buf) == SingleKeyLen

\* line 99-102: the two branches without a secret go straight to the return
AfterPrint == "return"

-----------------------------------------------------------------------------
(* Initial states *)

InitCommon ==
    /\ isTty \in BOOLEAN
    /\ text = NoText
    /\ err = "none"
    /\ screen = "main"
    /\ guard = FALSE
    /\ log = <<>>
    /\ stdinBuf = <<>>
    /\ stdinEof = FALSE
    /\ bytesRead = 0
    /\ handlerCalls = <<>>
    /\ displayCalls = 0
    /\ exitCode = -1
    /\ branch = "none"

\* the process after Command::parse() (line 58)
Init ==
    /\ cmd \in Command
    /\ arg \in 0..MaxArg
    /\ pc = "run"
    /\ content = NoMessage
    /\ InitCommon

\* display_output<T> called with any message a Serialize type can present
InitPresenter ==
    /\ cmd = "none"
    /\ arg = 0
    /\ pc = "display"
    /\ content \in Messages
    /\ InitCommon

-----------------------------------------------------------------------------
(* run, lines 57-69 *)

\* the match of lines 59-66: the handler of the selected command, `?` on its result
Dispatch ==
    /\ pc = "run"
    /\ LET h == HandlerOf(cmd)
           r == HandlerResult(h, arg)
       IN  /\ handlerCalls' = Append(handlerCalls, h)
           /\ IF r.tag = "Ok"
              THEN /\ content' = r.value
                   /\ pc' = "display"
                   /\ err' = err
              ELSE /\ content' = content
                   /\ pc' = "main_err"
                   /\ err' = "handler"
    /\ UNCHANGED <<cmd, arg, isTty, text, screen, guard, log, stdinBuf, stdinEof,
                   bytesRead, displayCalls, exitCode, branch>>

-----------------------------------------------------------------------------
(* display_output, lines 86-105 *)

\* lines 90-92 and 102: the terminal test, the rendering, the choice of branch
DisplayBegin ==
    /\ pc = "display"
    /\ displayCalls' = displayCalls + 1
    /\ LET r == IF isTty THEN serde_yaml_to_string(content)
                         ELSE serde_json_to_string(content)
       IN  IF r.tag = "Err"
           THEN \* .expect("valid string") / .expect("valid json")
                /\ Panic
                /\ UNCHANGED <<text, branch, err>>
           ELSE /\ text' = r.text
                /\ branch' = BranchOf(isTty, has_sensible_info(content))
                /\ pc' = CASE branch' = "shielded" -> "enter_alt"
                           [] branch' = "plain"    -> "print_plain"
                           [] branch' = "json"     -> "print_json"
                /\ UNCHANGED <<err, screen, guard, log, exitCode>>
    /\ UNCHANGED <<cmd, arg, isTty, content, stdinBuf, stdinEof, bytesRead, handlerCalls>>

\* line 93: let mut screen = stdout().into_alternate_screen()?;
EnterAlternateScreen ==
    /\ pc = "enter_alt"
    /\ \E ok \in BOOLEAN :
          IF ok
          THEN /\ log' = Append(log, Event("EnterAlt"))
               /\ screen' = "alt"
               /\ guard' = TRUE
               /\ pc' = "write_text"
               /\ UNCHANGED <<err, exitCode>>
          ELSE /\ pc' = EnterFailure
               /\ err' = "io"
               /\ UNCHANGED <<log, screen, guard, exitCode>>
    /\ UNCHANGED <<cmd, arg, isTty, content, text, stdinBuf, stdinEof, bytesRead,
                   handlerCalls, displayCalls, branch>>

\* line 94: writeln!(screen, "{text}",)?;
WriteText ==
    /\ pc = "write_text"
    /\ \E ok \in BOOLEAN :
          IF ok
          THEN /\ log' = Append(log, Written(text))
               /\ pc' = "flush"
               /\ UNCHANGED <<err, screen, guard, exitCode>>
          ELSE ReturnErr("io")
    /\ UNCHANGED <<cmd, arg, isTty, content, text, stdinBuf, stdinEof, bytesRead,
                   handlerCalls, displayCalls, branch>>

\* line 95: screen.flush()?;
Flush ==
    /\ pc = "flush"
    /\ \E ok \in BOOLEAN :
          IF ok
          THEN /\ pc' = "warning"
               /\ UNCHANGED <<err, screen, guard, log, exitCode>>
          ELSE ReturnErr("io")
    /\ UNCHANGED <<cmd, arg, isTty, content, text, stdinBuf, stdinEof, bytesRead,
                   handlerCalls, displayCalls, branch>>

\* line 96: println!("### Do not share or lose this private key! ... ###");
PrintWarning ==
    /\ pc = "warning"
    /\ \E ok \in BOOLEAN :
          IF ok
          THEN /\ log' = Append(log, Event("Warning"))
               /\ pc' = AfterWarning
               /\ UNCHANGED <<screen, guard, exitCode>>
          ELSE Panic
    /\ UNCHANGED <<cmd, arg, isTty, content, text, err, stdinBuf, stdinEof, bytesRead,
                   handlerCalls, displayCalls, branch>>

\* lines 97 and 71-74: stdin().read_exact(&mut single_key).unwrap();
\* blocks while nothing is typed and standard input is open
WaitForKeypress ==
    /\ pc = "wait_key"
    /\ IF Len(stdinBuf) >= SingleKeyLen
       THEN LET n == KeypressTake(stdinBuf)
            IN  /\ stdinBuf' = SubSeq(stdinBuf, n + 1, Len(stdinBuf))
                /\ bytesRead' = bytesRead + n
                /\ log' = Append(log, Event("ReadByte"))
                /\ pc' = "return"
                /\ UNCHANGED <<screen, guard, exitCode>>
       ELSE /\ stdinEof
            /\ Panic
            /\ UNCHANGED <<stdinBuf, bytesRead>>
    /\ UNCHANGED <<cmd, arg, isTty, content, text, err, stdinEof, handlerCalls,
                   displayCalls, branch>>

\* line 99: println!("{text}");
PrintPlain ==
    /\ pc = "print_plain"
    /\ \E ok \in BOOLEAN :
          IF ok
          THEN /\ log' = Append(log, Written(text))
               /\ pc' = AfterPrint
               /\ UNCHANGED <<screen, guard, exitCode>>
          ELSE Panic
    /\ UNCHANGED <<cmd, arg, isTty, content, text, err, stdinBuf, stdinEof, bytesRead,
                   handlerCalls, displayCalls, branch>>

\* line 102: print!("{}", serde_json::to_string(&message).expect("valid json"));
PrintJson ==
    /\ pc = "print_json"
    /\ \E ok \in BOOLEAN :
          IF ok
          THEN /\ log' = Append(log, Written(text))
               /\ pc' = AfterPrint
               /\ UNCHANGED <<screen, guard, exitCode>>
          ELSE Panic
    /\ UNCHANGED <<cmd, arg, isTty, content, text, err, stdinBuf, stdinEof, bytesRead,
                   handlerCalls, displayCalls, branch>>

\* lines 98-105: the scope of `screen` ends, Ok(()) goes back through run to main
DisplayReturn ==
    /\ pc = "return"
    /\ log' = log \o DropEvents(guard)
    /\ screen' = ScreenAfterDrop(guard, screen)
    /\ guard' = FALSE
    /\ pc' = "main_ok"
    /\ UNCHANGED <<cmd, arg, isTty, content, text, err, stdinBuf, stdinEof, bytesRead,
                   handlerCalls, displayCalls, exitCode, branch>>

-----------------------------------------------------------------------------
(* main, lines 49-55 *)

\* line 53: std::process::exit(1)
ErrorCode == 1

\* lines 51-53: println_error(&format!("{}", err)); std::process::exit(1);
MainError ==
    /\ pc = "main_err"
    /\ log' = log \o <<Event("ErrLine"), Event("Exit")>>
    /\ exitCode' = ErrorCode
    /\ pc' = "exited"
    /\ UNCHANGED <<cmd, arg, isTty, content, text, err, screen, guard, stdinBuf,
                   stdinEof, bytesRead, handlerCalls, displayCalls, branch>>

\* line 55: main returns, the process ends with code 0
MainOk ==
    /\ pc = "main_ok"
    /\ log' = Append(log, Event("Exit"))
    /\ exitCode' = 0
    /\ pc' = "exited"
    /\ UNCHANGED <<cmd, arg, isTty, content, text, err, screen, guard, stdinBuf,
                   stdinEof, bytesRead, handlerCalls, displayCalls, branch>>

-----------------------------------------------------------------------------
(* The user at the terminal *)

KeyPress ==
    /\ pc # "exited"
    /\ ~stdinEof
    /\ Len(stdinBuf) < MaxKeys
    /\ \E b \in 0..MaxByte : stdinBuf' = Append(stdinBuf, b)
    /\ UNCHANGED <<cmd, arg, isTty, pc, content, text, err, screen, guard, log,
                   stdinEof, bytesRead, handlerCalls, displayCalls, exitCode, branch>>

StdinClose ==
    /\ pc # "exited"
    /\ ~stdinEof
    /\ stdinEof' = TRUE
    /\ UNCHANGED <<cmd, arg, isTty, pc, content, text, err, screen, guard, log,
                   stdinBuf, bytesRead, handlerCalls, displayCalls, exitCode, branch>>

-----------------------------------------------------------------------------
(* Specifications *)

Presenter ==
    \/ DisplayBegin
    \/ EnterAlternateScreen
    \/ WriteText
    \/ Flush
    \/ PrintWarning
    \/ WaitForKeypress
    \/ PrintPlain
    \/ PrintJson
    \/ DisplayReturn

Program == Dispatch \/ Presenter \/ MainError \/ MainOk

Environment == KeyPress \/ StdinClose

Next == Program \/ Environment

NextPresenter == Presenter \/ MainError \/ MainOk \/ Environment

\* one process run of forc-crypto
Spec == Init /\ [][Next]_vars

\* the same run; the process is scheduled as long as it is not blocked
FairSpec == Init /\ [][Next]_vars /\ WF_vars(Program)

\* display_output applied to an arbitrary message
SpecPresenter == InitPresenter /\ [][NextPresenter]_vars

-----------------------------------------------------------------------------
(* Vocabulary of the properties *)

Has(e) == \E i \in 1..Len(log) : log[i].ev = e
Count(e) == Cardinality({i \in 1..Len(log) : log[i].ev = e})
LogEvs == [i \in 1..Len(log) |-> log[i].ev]
TextsOn(s) == {i \in 1..Len(log) : log[i].ev = "Text" /\ log[i].screen = s}

\* the message serializes to a JSON object with a top-level member `secret`
HasSecretField(m) ==
    m.jsonOk /\ m.value.type = "Object" /\ "secret" \in DOMAIN m.value.map

Started == displayCalls > 0
Unshielded == ~Has("EnterAlt") /\ ~Has("Warning") /\ ~Has("ReadByte")
                 /\ ~Has("Restore") /\ screen = "main" /\ bytesRead = 0

IsPrefix(a, b) == Len(a) <= Len(b) /\ \A i \in 1..Len(a) : a[i] = b[i]

-----------------------------------------------------------------------------
(* C1 *)

\* C1: with stdout a terminal, a Result Value that has a `secret` field takes
\* the alternate-screen/keypress path (and a run that ends well has entered
\* the alternate screen, printed the warning and read the key), and a Result
\* Value without it takes the plain path: it is printed on the normal screen,
\* with no alternate screen, no warning line and no keypress wait.
C1_SecretRoutesThroughAlternateScreen ==
    (isTty /\ Started) =>
        IF HasSecretField(content)
        THEN /\ branch = "shielded"
             /\ TextsOn("main") = {}
             /\ exitCode = 0 =>
                   Has("EnterAlt") /\ Has("Warning") /\ Has("ReadByte")
        ELSE /\ branch = "plain"
             /\ Unshielded
             /\ pc # "wait_key"
             /\ exitCode = 0 =>
                   /\ Count("Text") = 1
                   /\ \A i \in TextsOn("main") : log[i].text.of = content.value

C1_Witness ==
    /\ isTty /\ HasSecretField(content) /\ exitCode = 0
    /\ Has("EnterAlt") /\ cmd = "NewKey"

-----------------------------------------------------------------------------
(* C2 *)

\* C2: with stdout not a terminal the only thing display_output writes is the
\* Result Value as one line of JSON, for every Result Value, one with a
\* `secret` field included (secret, public and address all appear), and it
\* never enters the alternate screen, prints the warning or waits for a key.
C2_PipedOutputIsOneJsonLine ==
    ~isTty =>
        /\ Unshielded
        /\ pc \notin {"enter_alt", "write_text", "flush", "warning", "wait_key", "print_plain"}
        /\ branch \in {"none", "json"}
        /\ Count("Text") <= 1
        /\ \A i \in 1..Len(log) : log[i].ev = "Text" =>
              /\ log[i].text.format = "json"
              /\ log[i].text.lines = 1
              /\ log[i].text.of = content.value
              /\ HasSecretField(content) =>
                    {"secret", "public", "address"} \subseteq log[i].text.fields
        /\ exitCode = 0 => Count("Text") = 1

C2_Witness ==
    /\ ~isTty /\ exitCode = 0 /\ cmd = "NewKey"
    /\ Count("Text") = 1 /\ HasSecretField(content)

-----------------------------------------------------------------------------
(* C3 *)

\* C3: the branch the presenter takes is a function of the execution context
\* and of the presence of a `secret` field alone; the command that produced
\* the value has no part in it, so two runs that agree on both take the same
\* branch whatever their commands.
C3_BranchDependsOnShapeAndContextOnly ==
    Started /\ branch # "none" =>
        branch = (CASE ~isTty -> "json"
                    [] isTty /\ HasSecretField(content) -> "shielded"
                    [] isTty /\ ~HasSecretField(content) -> "plain")

C3_Witness ==
    /\ cmd = "ParseSecret" /\ branch = "shielded" /\ pc = "wait_key"

-----------------------------------------------------------------------------
(* C4 *)

Canonical == <<"EnterAlt", "Text", "Warning", "ReadByte", "Restore", "Exit">>
Rank(e) == CHOOSE k \in 1..Len(Canonical) : Canonical[k] = e
InCanonical(e) == \E k \in 1..Len(Canonical) : Canonical[k] = e

-----------------------------------------------------------------------------
(* C5 *)

\* C5: once display_output has entered the alternate screen the normal screen
\* is restored on every way out: after the keypress, when writing or flushing
\* the result fails, and when the keypress read fails.  Control never is
\* back in main, and the process never ends, with the alternate screen left
\* active.
C5_AlternateScreenAlwaysRestored ==
    /\ pc \in {"main_err", "main_ok", "exited"} =>
          /\ screen = "main"
          /\ ~guard
          /\ Has("EnterAlt") => Has("Restore")
    /\ \A i \in 1..Len(log) : log[i].ev = "Exit" => log[i].screen = "main"
    /\ guard <=> screen = "alt"

C5_Witness ==
    /\ pc = "exited" /\ Has("EnterAlt") /\ Has("Panic") /\ Has("Warning")
    /\ screen = "main"

-----------------------------------------------------------------------------
(* C6 *)

\* C6: when entering the alternate screen fails, display_output returns the
\* error: neither the result nor the warning line is ever written, on any
\* screen, and the run ends through main's error report with code 1.
C6_EnterFailureIsHardError ==
    (branch = "shielded" /\ err = "io" /\ ~Has("EnterAlt")) =>
        /\ ~Has("Text")
        /\ ~Has("Warning")
        /\ pc \in {"main_err", "exited"}
        /\ pc = "exited" => (exitCode = 1 /\ Has("ErrLine"))

C6_Witness ==
    /\ branch = "shielded" /\ err = "io" /\ ~Has("EnterAlt") /\ pc = "exited"

-----------------------------------------------------------------------------
(* C7 *)

\* the handler each subcommand names
OwnHandler ==
    [c \in Command |->
        CASE c = "Keccak256"    -> "keccak256::hash"
          [] c = "Sha256"       -> "sha256::hash"
          [] c = "Address"      -> "address::dump_address"
          [] c = "GetPublicKey" -> "keys::get_public_key::handler"
          [] c = "NewKey"       -> "keys::new_key::handler"
          [] c = "ParseSecret"  -> "keys::parse_secret::handler"]

\* C7: for each of the six commands a run invokes one handler, the one of the
\* selected command; when it succeeds its result is passed to display_output
\* once, when it fails display_output is not called; nothing is written to
\* stdout outside display_output, and what is written renders that result.
C7_OneHandlerOneDisplay ==
    /\ Len(handlerCalls) <= 1
    /\ displayCalls <= 1
    /\ pc = "run" => (handlerCalls = <<>> /\ displayCalls = 0 /\ log = <<>>)
    /\ pc # "run" =>
          /\ handlerCalls = <<OwnHandler[cmd]>>
          /\ arg # 0 => content = Serializable(HandlerValue(OwnHandler[cmd], arg))
          /\ arg = 0 => (content = NoMessage /\ displayCalls = 0)
          /\ (arg # 0 /\ pc # "display") => displayCalls = 1
    /\ displayCalls = 0 => ~Has("Text")
    /\ \A i \in 1..Len(log) : log[i].ev = "Text" => log[i].text.of = content.value
    /\ exitCode = 0 => (displayCalls = 1 /\ Count("Text") = 1)

C7_Witness ==
    /\ cmd = "Sha256" /\ exitCode = 0 /\ handlerCalls = <<"sha256::hash">>
    /\ displayCalls = 1

-----------------------------------------------------------------------------
(* C8 *)

Failed == err # "none" \/ Has("Panic")

\* C8: on any failure, of the handler or inside the presenter, main prints
\* one error line on the diagnostic stream and the process ends with a
\* non-zero code; when the handler failed nothing is written to stdout and
\* display_output is not called; on success the code is 0 and no error line
\* is printed.
C8_EveryFailureReportedByMain ==
    pc = "exited" =>
        /\ Failed => (Count("ErrLine") = 1 /\ exitCode # 0)
        /\ err = "handler" => (~Has("Text") /\ displayCalls = 0)
        /\ ~Failed => (exitCode = 0 /\ ~Has("ErrLine"))

-----------------------------------------------------------------------------
(* C9 *)

C9_Reads ==
    /\ bytesRead <= 1
    /\ Count("ReadByte") = bytesRead
    /\ bytesRead > 0 => branch = "shielded"
    /\ pc = "wait_key" => branch = "shielded"
    /\ (branch = "shielded" /\ exitCode = 0) => bytesRead = 1

\* C9: standard input is read in the shielded branch only, and one byte of
\* it, whatever its value and however many are waiting; the plain and the
\* piped branch run to the end of the process without waiting for input; and
\* in the shielded branch, once a byte is there to read, the process reads
\* it, restores the normal screen and ends with code 0.
C9_OneByteOnlyWhenShielded ==
    /\ []C9_Reads
    /\ (branch \in {"plain", "json"}) ~> (pc = "exited")
    /\ (pc = "wait_key" /\ Len(stdinBuf) > 0)
          ~> (pc = "exited" /\ exitCode = 0 /\ screen = "main" /\ bytesRead = 1)

C9_Witness ==
    /\ branch = "shielded" /\ exitCode = 0 /\ bytesRead = 1
    /\ Len(stdinBuf) = MaxKeys - 1 /\ Len(stdinBuf) > 0

-----------------------------------------------------------------------------
(* C10 *)

\* C10 as stated: the shielded branch is taken exactly for a message that
\* serializes to a JSON object with a top-level `secret`, and in every other
\* case an interactive run goes on to print the value on the normal screen.
C10_AsStated ==
    (isTty /\ Started) =>
        IF HasSecretField(content) THEN branch = "shielded" ELSE branch = "plain"

\* C10 amended: for a message whose YAML rendering succeeds, the shielded
\* branch is taken exactly when it serializes to a JSON object with a
\* top-level key `secret` (whatever its value, null included); a bare string,
\* null, an object with `secret` only in a nested value and a message whose
\* JSON serialization fails are printed on the normal screen.  A message whose
\* YAML rendering fails makes display_output panic before has_sensible_info
\* is consulted: nothing is printed and the process ends with code 101.
C10_SecretKeyAtTopLevelOnly ==
    (isTty /\ Started) =>
        IF content.yamlOk
        THEN /\ (branch = "shielded") <=> HasSecretField(content)
             /\ ~HasSecretField(content) =>
                   /\ branch = "plain"
                   /\ Unshielded
                   /\ exitCode = 0 =>
                         /\ Count("Text") = 1
                         /\ \A i \in TextsOn("main") :
                               log[i].text.format = "yaml" /\ log[i].text.of = content.value
        ELSE /\ branch = "none"
             /\ pc = "exited"
             /\ exitCode = 101
             /\ LogEvs = <<"Panic", "Exit">>

C10_Witness ==
    /\ isTty /\ exitCode = 0 /\ branch = "plain"
    /\ ~content.jsonOk /\ content.yamlOk
    /\ content.value.type = "Object" /\ "secret" \in DOMAIN content.value.map
    /\ TextsOn("main") # {}

====
